---- MODULE Spec2Model ----
(***************************************************************************)
(* StarBoard: the multi-tier data synchronisation chain of script.js       *)
(* (class StarBoard, second copy, lines 1564..), the two Netlify storage   *)
(* functions it talks to, and the save path of AdminDashboard (README.md). *)
(*                                                                         *)
(* JSON values are tagged records: [k |-> kind, ...].  An object is        *)
(* [k |-> "obj", o |-> f] with f a function from property names to JSON    *)
(* values; a property that is absent is simply not in DOMAIN f.            *)
(***************************************************************************)
EXTENDS Integers, Sequences, FiniteSets, TLC

(***************************************************************************)
(* Bounds of the model.                                                    *)
(***************************************************************************)
MaxClock == 1
MaxSaves == 2

(***************************************************************************)
(* JSON values and the JavaScript operators the source applies to them.    *)
(***************************************************************************)
JNull == [k |-> "null"]
JUndef == [k |-> "undef"]
JStr(s) == [k |-> "str", s |-> s]
JNum(n) == [k |-> "num", n |-> n]
JBool(b) == [k |-> "bool", b |-> b]
JObj(f) == [k |-> "obj", o |-> f]
EmptyObj == JObj(<<>>)

\* new Date().toISOString() at clock value t
IsoTime(t) == JStr("T" \o ToString(t))

\* JavaScript truthiness (!x is ~Truthy(x))
Truthy(j) ==
    CASE j.k = "null" -> FALSE
      [] j.k = "undef" -> FALSE
      [] j.k = "str" -> j.s # ""
      [] j.k = "num" -> j.n # 0
      [] j.k = "bool" -> j.b
      [] OTHER -> TRUE

\* typeof j === 'object' (true of null as well)
TypeofObject(j) == j.k \in {"obj", "null"}

\* j.hasOwnProperty(key)
HasOwn(j, key) == j.k = "obj" /\ key \in DOMAIN j.o

\* j[key] of a value that is neither null nor undefined
Get(j, key) == IF HasOwn(j, key) THEN j.o[key] ELSE JUndef

\* j[key] throws a TypeError
GetThrows(j) == j.k \in {"null", "undef"}

\* Object.keys(j) of an object
Keys(j) == IF j.k = "obj" THEN DOMAIN j.o ELSE {}

\* j[key] = v on an object
Put(j, key, v) == JObj([p \in Keys(j) \cup {key} |-> IF p = key THEN v ELSE j.o[p]])

RECURSIVE JsonRoundTrip(_)
\* JSON.parse(JSON.stringify(j)): members whose value is undefined are dropped
JsonRoundTrip(j) ==
    IF j.k = "obj"
    THEN JObj([p \in {q \in DOMAIN j.o : j.o[q].k # "undef"} |-> JsonRoundTrip(j.o[p])])
    ELSE j

(***************************************************************************)
(* StarBoard.validateDataStructure.  TRUE iff the function returns true;   *)
(* FALSE covers both "returns false" and "throws a TypeError" (a class or  *)
(* student entry that is null): every caller wraps the call in try/catch   *)
(* and treats the two alike.                                               *)
(***************************************************************************)
StudentOk(student) ==
    /\ ~GetThrows(student)
    /\ Truthy(Get(student, "name"))
    /\ Get(student, "stars").k = "num"
    /\ Get(student, "stars").n >= 0

ClassOk(classData) ==
    /\ ~GetThrows(classData)
    /\ Truthy(Get(classData, "students"))
    /\ TypeofObject(Get(classData, "students"))
    /\ \A sid \in Keys(Get(classData, "students")) :
          StudentOk(Get(classData, "students").o[sid])

validateDataStructure(data) ==
    /\ Truthy(data)
    /\ TypeofObject(data)
    /\ \A prop \in {"classes", "teachers", "settings"} :
          HasOwn(data, prop) /\ TypeofObject(data.o[prop])
    /\ Truthy(data.o["classes"]) =>
          \A cn \in Keys(data.o["classes"]) : ClassOk(data.o["classes"].o[cn])
    /\ Truthy(data.o["teachers"]) =>
          \A u \in Keys(data.o["teachers"]) : data.o["teachers"].o[u].k = "str"

\* AdminDashboard.validateDataStructure: the top-level check only
adminValidateDataStructure(data) ==
    /\ Truthy(data)
    /\ TypeofObject(data)
    /\ \A prop \in {"classes", "teachers", "settings"} :
          HasOwn(data, prop) /\ TypeofObject(data.o[prop])

(***************************************************************************)
(* Documents.                                                              *)
(***************************************************************************)
\* StarBoard.createDefaultData at clock value t
createDefaultData(t) ==
    JObj([classes |-> EmptyObj,
          teachers |-> JObj([teacher |-> JStr("starboard")]),
          settings |-> JObj([theme |-> JStr("dark"),
                             soundEnabled |-> JBool(TRUE),
                             autoBackup |-> JBool(TRUE)]),
          metadata |-> JObj([version |-> JStr("2.0"),
                             created |-> IsoTime(t),
                             lastModified |-> IsoTime(t),
                             backupCount |-> JNum(0)])])

\* createDefaultData of the two Netlify functions
serverDefaultData(t) == createDefaultData(t)

\* (x || 0) + 1 of saveData's backupCount
PlusOne(x) ==
    CASE ~Truthy(x) -> JNum(1)
      [] x.k = "num" -> JNum(x.n + 1)
      [] x.k = "str" -> JStr(x.s \o "1")
      [] x.k = "bool" -> JNum(2)
      [] OTHER -> JStr("[object Object]1")

\* data.metadata?.backupCount
PriorBackupCount(data) ==
    IF GetThrows(Get(data, "metadata")) THEN JUndef
    ELSE Get(Get(data, "metadata"), "backupCount")

\* saveData's stamp: data.metadata is replaced by a new three-field object
Stamp(data, t) ==
    Put(data, "metadata",
        JObj([lastModified |-> IsoTime(t),
              version |-> JStr("2.0"),
              backupCount |-> PlusOne(PriorBackupCount(data))]))

(***************************************************************************)
(* Documents the environment supplies: the rows other clients have PUT to  *)
(* the remote tiers, what an earlier session left on the device, and the   *)
(* files a user imports.                                                   *)
(***************************************************************************)
MkDoc(stars, count) ==
    JObj([classes |-> JObj([Math |-> JObj([students |->
                        JObj([s1 |-> JObj([name |-> JStr("Ann"),
                                           stars |-> JNum(stars)])])])]),
          teachers |-> JObj([teacher |-> JStr("starboard")]),
          settings |-> EmptyObj,
          metadata |-> JObj([version |-> JStr("2.0"),
                             created |-> IsoTime(0),
                             lastModified |-> IsoTime(0),
                             backupCount |-> JNum(count)])])

DocRemote == MkDoc(3, 5)
DocLegacy == MkDoc(1, 2)
DocLocal == MkDoc(2, 3)
\* a row written by AdminDashboard.updateStudent with a negative star count
DocNegStars == MkDoc(-1, 4)
\* saveData({classes:{"Math":{students:{}}}, teachers:{}, settings:{}})
DocMath ==
    JObj([classes |-> JObj([Math |-> JObj([students |-> EmptyObj])]),
          teachers |-> EmptyObj,
          settings |-> EmptyObj])
\* an import file that has classes but lacks teachers and settings
DocNoTeachers == JObj([classes |-> EmptyObj])
\* an import file with a class entry that is null (the validator throws)
DocNullClass ==
    JObj([classes |-> JObj([Math |-> JNull]),
          teachers |-> EmptyObj,
          settings |-> EmptyObj])

ImportFiles == {DocMath, DocNoTeachers, DocNegStars, DocNullClass}

\* Rows that any client of the primary function may have PUT (the function
\* stores whatever has a truthy classes member, and the table can be edited
\* by hand): every combination of well-formed and ill-formed parts.  A
\* member given as undefined is absent from the row.
StudentVals ==
    {JNull} \cup
    {JsonRoundTrip(JObj([name |-> n, stars |-> st])) :
        n \in {JUndef, JStr(""), JStr("Ann"), JNum(7)},
        st \in {JUndef, JNum(-1), JNum(0), JNum(3), JStr("3")}}
ClassVals ==
    {JNull, EmptyObj} \cup
    {JObj([students |-> sv]) : sv \in {JNull, EmptyObj, JStr("x")}} \cup
    {JObj([students |-> JObj([s1 |-> sv])]) : sv \in StudentVals}
CandidateRows ==
    {JNum(5), JStr("x")} \cup
    {JsonRoundTrip(JObj([classes |-> c, teachers |-> t, settings |-> st])) :
        c \in {JUndef, JNull, EmptyObj, JStr("x")} \cup
               {JObj([Math |-> cv]) : cv \in ClassVals},
        t \in {JUndef, JNull, EmptyObj, JObj([teacher |-> JStr("starboard")]),
               JObj([teacher |-> JNum(1)])},
        st \in {JUndef, JNull, EmptyObj}}

(***************************************************************************)
(* localStorage holds strings: a value is absent, the JSON text of a       *)
(* document, or a string JSON.parse rejects.                               *)
(***************************************************************************)
LsNone == [k |-> "none"]
LsGarbage == [k |-> "garbage"]
\* JSON.stringify(doc, null, 2)
LsText(doc) == [k |-> "text", j |-> JsonRoundTrip(doc)]

VARIABLES
    now,          \* the wall clock read by new Date()
    memoryCache,  \* StarBoard.memoryCache (JNull when null)
    supabaseRow,  \* primary tier: starboard_data row 'main' (JUndef: no row)
    blobStore,    \* legacy tier: blob 'data.json' (JUndef: no blob)
    idbData,      \* Local Durable Store: IndexedDB kv['data'] (JUndef: none)
    lsData,       \* Local Fast Cache: localStorage['starboard_data']
    load,         \* the running initializeDataStorage
    calls,        \* the saveData invocations of this page
    bg,           \* the un-awaited dbSave started by getData
    idbQueue,     \* pending IndexedDB requests, in the order they were made
    nSaves,       \* saveData invocations so far, on every page load together
    hist,         \* history: the stamped document of the last completed save
    admin,        \* the AdminDashboard page: this.data and its loadData/saveData
    caller        \* the operation that last called saveData: its object and branch

vars == <<now, memoryCache, supabaseRow, blobStore, idbData, lsData, load,
          calls, bg, idbQueue, nSaves, hist, admin, caller>>

CallIds == 1..MaxSaves

OwnerLoad == [who |-> "load", id |-> 0]
OwnerBg == [who |-> "bg", id |-> 0]
OwnerCall(c) == [who |-> "call", id |-> c]

IdleCall == [pc |-> "idle", arg |-> JNull, stamped |-> JNull, body |-> JNull,
             dbArg |-> JNull, dbAlias |-> FALSE, result |-> "none"]

\* a saveData promise that has resolved to result
DoneCall(result) == [IdleCall EXCEPT !.pc = "done", !.result = result]
\* saveData refused data at line 1663
RejectedCall(data) == [IdleCall EXCEPT !.pc = "done", !.result = "false", !.arg = data]

\* the constructor: memoryCache = null, then initializeApp() runs
\* initializeDataStorage up to its first await, the primary tier's fetch
FreshLoad(idbNow) ==
    [pc |-> "primaryGet", got |-> JNull, alias |-> FALSE,
     primary |-> "none", primaryDoc |-> JNull, legacy |-> "none",
     idbEmptyAtStart |-> (idbNow = JUndef)]

NoBg == [pending |-> FALSE, doc |-> JNull, alias |-> FALSE]

\* how the environment answers during a run of two loads in succession
NoEnv == [primary |-> "ok", legacy |-> "ok", idb |-> TRUE]

\* committed: the stamped document of the last save that resolved true;
\* run, first, env: which of two successive loads is running, what the
\* first one left in memory, and the reachability both meet
NoHist == [committed |-> JNull, run |-> 1, first |-> JNull, env |-> NoEnv]

\* no operation of this page has called saveData (before: what getData()
\* returned when the operation began)
NoCaller == [obj |-> JNull, shared |-> FALSE, accepted |-> FALSE, success |-> FALSE,
             before |-> JNull]

\* the admin page is not open
AdminClosed == [pc |-> "closed", data |-> JNull, arg |-> JNull, refresh |-> "none"]
\* new AdminDashboard(): this.data = null, then loadData() runs up to its
\* first await, the primary tier's fetch
AdminFresh == [pc |-> "primaryGet", data |-> JNull, arg |-> JNull, refresh |-> "none"]

InitPageCore ==
    /\ now = 0
    /\ memoryCache = JNull
    /\ load = FreshLoad(idbData)
    /\ calls = [c \in CallIds |-> IdleCall]
    /\ bg = NoBg
    /\ idbQueue = <<>>
    /\ nSaves = 0
    /\ caller = NoCaller

InitPage == InitPageCore /\ hist = NoHist

\* a first visit; an established deployment; a device on which only the
\* admin page has saved (a student with negative stars, see updateStudent)
Init ==
    /\ \E t \in {<<JUndef, JUndef, JUndef, LsNone>>,
                 <<DocRemote, DocLegacy, DocLocal, LsText(DocLocal)>>,
                 <<DocNegStars, JUndef, JUndef, LsText(DocNegStars)>>} :
          supabaseRow = t[1] /\ blobStore = t[2] /\ idbData = t[3] /\ lsData = t[4]
    /\ InitPage
    /\ admin = AdminClosed

\* every combination of what the four tiers may hold when the page opens
InitAnyTiers ==
    /\ supabaseRow \in {JUndef, DocRemote, DocNegStars}
    /\ blobStore \in {JUndef, DocLegacy}
    /\ \E local \in {<<JUndef, LsNone>>,
                      <<DocLocal, LsText(DocLocal)>>,
                      <<JUndef, LsText(DocNegStars)>>,
                      <<JUndef, LsGarbage>>} :
          idbData = local[1] /\ lsData = local[2]
    /\ InitPage
    /\ admin = AdminClosed

(***************************************************************************)
(* The Netlify functions (server side).                                    *)
(***************************************************************************)
\* supabase-starboard.js GET: the body returned with status 200
supabaseGetBody(row, t) ==
    IF row = JUndef THEN serverDefaultData(t)
    ELSE IF Truthy(row) THEN row ELSE serverDefaultData(t)

\* supabase-starboard.js GET: the row afterwards (a default is inserted when
\* the select finds no row)
supabaseGetRow(row, t) == IF row = JUndef THEN serverDefaultData(t) ELSE row

\* starboard.js GET: value || createDefaultData(), nothing is stored
blobGetBody(value, t) == IF Truthy(value) THEN value ELSE serverDefaultData(t)

\* both PUT handlers: !parsed || typeof parsed !== 'object' || !parsed.classes
serverAccepts(parsed) ==
    /\ Truthy(parsed)
    /\ TypeofObject(parsed)
    /\ Truthy(Get(parsed, "classes"))

(***************************************************************************)
(* The clock.                                                              *)
(***************************************************************************)
Tick ==
    /\ now < MaxClock
    /\ now' = now + 1
    /\ UNCHANGED <<caller, admin, memoryCache, supabaseRow, blobStore, idbData, lsData,
                   load, calls, bg, idbQueue, nSaves, hist>>

(***************************************************************************)
(* Remote tier clients: load.                                              *)
(***************************************************************************)
\* how a request to a Netlify function can end
Outcomes == {"neterr", "notok", "ok"}
\* a GET may also end with status 200 and a body response.json() rejects
LoadOutcomes == Outcomes \cup {"badjson"}

\* tryLoad without the validateDataStructure test
tryLoadUnvalidated(out, body) ==
    IF out = "ok" THEN JsonRoundTrip(body) ELSE JNull

\* tryLoadFromSupabase / tryLoadFromNetlify: the value the promise resolves
\* to, given how the request ended and the body of a 200 response
tryLoad(out, body) ==
    IF out = "ok" /\ validateDataStructure(JsonRoundTrip(body))
    THEN JsonRoundTrip(body)
    ELSE JNull

(***************************************************************************)
(* IndexedDB requests complete in the order they were made.                *)
(***************************************************************************)
IdbTurn(owner) == idbQueue # <<>> /\ Head(idbQueue) = owner
\* the request at the head completes and its owner makes no further request
IdbPop == Tail(idbQueue)
\* the request at the head completes and its owner makes the next one
IdbReissue(owner) == Append(Tail(idbQueue), owner)

(***************************************************************************)
(* StarBoard.initializeDataStorage, one action per await.                  *)
(***************************************************************************)
\* the promise settles: pc is "done" (return) or "threw" (rejection)
LoadEnds(pc) == [load EXCEPT !.pc = pc, !.got = JNull, !.alias = FALSE]

\* line 1609: await this.tryLoadFromSupabase()
LoadPrimary(out) ==
    /\ load.pc = "primaryGet"
    /\ supabaseRow' = IF out = "ok" THEN supabaseGetRow(supabaseRow, now) ELSE supabaseRow
    /\ LET supabaseData == tryLoad(out, supabaseGetBody(supabaseRow, now)) IN
         IF Truthy(supabaseData)
         THEN /\ memoryCache' = supabaseData
              /\ load' = [load EXCEPT !.pc = "p_dbInit", !.got = supabaseData,
                                      !.alias = TRUE, !.primary = "valid",
                                      !.primaryDoc = supabaseData]
              /\ idbQueue' = Append(idbQueue, OwnerLoad)
              /\ bg' = [bg EXCEPT !.alias = FALSE]
              /\ calls' = [c \in CallIds |-> [calls[c] EXCEPT !.dbAlias = FALSE]]
         ELSE /\ load' = [load EXCEPT !.pc = "legacyGet",
                                      !.primary = IF out = "ok" THEN "invalid" ELSE "fail"]
              /\ UNCHANGED <<memoryCache, idbQueue, bg, calls>>
    /\ UNCHANGED <<caller, admin, now, blobStore, idbData, lsData, nSaves, hist>>

\* lines 1612 and 1626: await this.dbInit() of a remote document's mirror
LoadMirrorInit(ok) ==
    /\ load.pc \in {"p_dbInit", "l_dbInit"}
    /\ IdbTurn(OwnerLoad)
    /\ IF ok
       THEN /\ load' = [load EXCEPT !.pc = IF load.pc = "p_dbInit" THEN "p_dbSave" ELSE "l_dbSave"]
            /\ idbQueue' = IdbReissue(OwnerLoad)
       ELSE \* caught at 1617 / 1631: on to the next tier
            /\ load' = [load EXCEPT !.pc = IF load.pc = "p_dbInit" THEN "legacyGet" ELSE "dbInit"]
            /\ idbQueue' = IF load.pc = "p_dbInit" THEN IdbPop ELSE IdbReissue(OwnerLoad)
    /\ UNCHANGED <<caller, admin, now, memoryCache, supabaseRow, blobStore, idbData, lsData,
                   calls, bg, nSaves, hist>>

\* lines 1613-1615 and 1627-1629: await this.dbSave(doc); localStorage.setItem; return
LoadMirrorSave(ok) ==
    /\ load.pc \in {"p_dbSave", "l_dbSave"}
    /\ IdbTurn(OwnerLoad)
    /\ IF ok
       THEN /\ idbData' = load.got
            /\ lsData' = LsText(load.got)
            /\ load' = LoadEnds("done")
            /\ idbQueue' = IdbPop
       ELSE /\ load' = [load EXCEPT !.pc = IF load.pc = "p_dbSave" THEN "legacyGet" ELSE "dbInit"]
            /\ idbQueue' = IF load.pc = "p_dbSave" THEN IdbPop ELSE IdbReissue(OwnerLoad)
            /\ UNCHANGED <<idbData, lsData>>
    /\ UNCHANGED <<caller, admin, now, memoryCache, supabaseRow, blobStore, calls, bg,
                   nSaves, hist>>

\* line 1623: await this.tryLoadFromNetlify()
LoadLegacy(out) ==
    /\ load.pc = "legacyGet"
    /\ LET netlifyData == tryLoad(out, blobGetBody(blobStore, now)) IN
         IF Truthy(netlifyData)
         THEN /\ memoryCache' = netlifyData
              /\ load' = [load EXCEPT !.pc = "l_dbInit", !.got = netlifyData,
                                      !.alias = TRUE, !.legacy = "valid"]
              /\ bg' = [bg EXCEPT !.alias = FALSE]
              /\ calls' = [c \in CallIds |-> [calls[c] EXCEPT !.dbAlias = FALSE]]
         ELSE /\ load' = [load EXCEPT !.pc = "dbInit",
                                      !.legacy = IF out = "ok" THEN "invalid" ELSE "fail"]
              /\ UNCHANGED <<memoryCache, bg, calls>>
    /\ idbQueue' = Append(idbQueue, OwnerLoad)
    /\ UNCHANGED <<caller, admin, now, supabaseRow, blobStore, idbData, lsData, nSaves, hist>>

\* line 1634: await this.dbInit(), outside every try block
LoadDbInit(ok) ==
    /\ load.pc = "dbInit"
    /\ IdbTurn(OwnerLoad)
    /\ IF ok
       THEN load' = [load EXCEPT !.pc = "dbLoad"] /\ idbQueue' = IdbReissue(OwnerLoad)
       ELSE load' = LoadEnds("threw") /\ idbQueue' = IdbPop
    /\ UNCHANGED <<caller, admin, now, memoryCache, supabaseRow, blobStore, idbData, lsData,
                   calls, bg, nSaves, hist>>

\* lines 1635-1640: const existing = await this.dbLoad(); adopt it or a default
LoadDbLoad(ok) ==
    /\ load.pc = "dbLoad"
    /\ IdbTurn(OwnerLoad)
    /\ IF ~ok
       THEN /\ load' = LoadEnds("threw")
            /\ idbQueue' = IdbPop
            /\ UNCHANGED <<memoryCache, bg, calls>>
       ELSE IF Truthy(idbData)
       THEN /\ memoryCache' = idbData
            /\ load' = LoadEnds("done")
            /\ idbQueue' = IdbPop
            /\ bg' = [bg EXCEPT !.alias = FALSE]
            /\ calls' = [c \in CallIds |-> [calls[c] EXCEPT !.dbAlias = FALSE]]
       ELSE /\ memoryCache' = createDefaultData(now)
            /\ load' = [load EXCEPT !.pc = "dbSaveDefault",
                                    !.got = createDefaultData(now), !.alias = TRUE]
            /\ idbQueue' = IdbReissue(OwnerLoad)
            /\ bg' = [bg EXCEPT !.alias = FALSE]
            /\ calls' = [c \in CallIds |-> [calls[c] EXCEPT !.dbAlias = FALSE]]
    /\ UNCHANGED <<caller, admin, now, supabaseRow, blobStore, idbData, lsData, nSaves, hist>>

\* line 1641: await this.dbSave(defaultData)
LoadDbSaveDefault(ok) ==
    /\ load.pc = "dbSaveDefault"
    /\ IdbTurn(OwnerLoad)
    /\ IF ok
       THEN idbData' = load.got /\ load' = LoadEnds("done")
       ELSE UNCHANGED idbData /\ load' = LoadEnds("threw")
    /\ idbQueue' = IdbPop
    /\ UNCHANGED <<caller, admin, now, memoryCache, supabaseRow, blobStore, lsData, calls, bg,
                   nSaves, hist>>

(***************************************************************************)
(* StarBoard.getDataFromLocalStorage and getData.                          *)
(***************************************************************************)
\* getDataFromLocalStorage returning whatever JSON.parse yields
getDataFromLocalStorageUnvalidated(ls, t) ==
    IF ls.k = "text" THEN ls.j ELSE createDefaultData(t)

getDataFromLocalStorage(ls, t) ==
    IF ls.k = "none" THEN createDefaultData(t)
    ELSE IF ls.k = "garbage" THEN createDefaultData(t)
    ELSE IF ~validateDataStructure(ls.j) THEN createDefaultData(t)
    ELSE ls.j

\* what getData() returns in the current state
getDataResult ==
    IF Truthy(memoryCache) THEN memoryCache
    ELSE getDataFromLocalStorage(lsData, now)

\* getData() called with no in-memory copy: adopt the fast cache's document
\* and start a dbSave nobody awaits.  (With a copy present it changes nothing.)
GetData ==
    /\ IF Truthy(memoryCache)
       THEN UNCHANGED <<memoryCache, bg, idbQueue>>
       ELSE /\ memoryCache' = getDataFromLocalStorage(lsData, now)
            /\ bg' = [pending |-> TRUE,
                      doc |-> getDataFromLocalStorage(lsData, now),
                      alias |-> TRUE]
            /\ idbQueue' = Append(idbQueue, OwnerBg)
    /\ load' = [load EXCEPT !.alias = IF Truthy(memoryCache) THEN @ ELSE FALSE]
    /\ UNCHANGED <<caller, admin, now, supabaseRow, blobStore, idbData, lsData, calls,
                   nSaves, hist>>

\* the class parameter of the page's URL ("" when there is none)
ClassParams == {"", "Math"}

\* The constructor goes on synchronously after initializeApp() has reached
\* its first await: loadFromURL() calls selectClass(class) when the URL names
\* a class, selectClass calls updateLeaderboard, which calls getData().
LoadFromURL(classParam) ==
    /\ load.pc = "primaryGet"
    /\ ~Truthy(memoryCache)
    /\ IF classParam = "" THEN UNCHANGED vars ELSE GetData

\* line 1652: this.dbSave(cached).catch(() => {}) completes
BgDbSave(ok) ==
    /\ bg.pending
    /\ IdbTurn(OwnerBg)
    /\ idbData' = IF ok THEN bg.doc ELSE idbData
    /\ bg' = NoBg
    /\ idbQueue' = IdbPop
    /\ UNCHANGED <<caller, admin, now, memoryCache, supabaseRow, blobStore, lsData, load,
                   calls, nSaves, hist>>

(***************************************************************************)
(* StarBoard.saveData, one action per await.                               *)
(***************************************************************************)
\* The caller's object was the in-memory copy itself (data = this.getData())
\* and has just been changed in place to obj: every pending request that
\* holds a reference to that object now holds obj.  In any case memoryCache
\* is a different object afterwards.
AliasedLoad(inPlace, obj) ==
    [load EXCEPT !.got = IF inPlace /\ load.alias THEN obj ELSE @, !.alias = FALSE]
AliasedBg(inPlace, obj) ==
    [bg EXCEPT !.doc = IF inPlace /\ bg.alias THEN obj ELSE @, !.alias = FALSE]
AliasedCall(call, inPlace, obj) ==
    [call EXCEPT !.dbArg = IF inPlace /\ call.dbAlias THEN obj ELSE @, !.dbAlias = FALSE]

\* what an async function returns to a caller that does not await it
SaveDataPromise == [k |-> "promise"]

\* line 1674 with this.memoryCache = data, no copy
CacheIsCallerObjectNoCopy(data) == TRUE

\* line 1674: is this.memoryCache the caller's object afterwards?
\* JSON.parse(JSON.stringify(data)) is a new object.
CacheIsCallerObject(data) == FALSE

\* saveData stamping and caching before it validates
RejectedMemoryStampedFirst(data, inPlace) == JsonRoundTrip(Stamp(data, now))

\* lines 1660-1664: a refused document leaves this.memoryCache alone (an
\* object the caller changed in place, being the cache itself, stays changed)
RejectedMemory(data, inPlace) == IF inPlace THEN data ELSE memoryCache

\* lines 1657-1681: validation, stamp, memoryCache, and the primary PUT is sent
SaveStart(c, data, inPlace) ==
    /\ nSaves < MaxSaves
    /\ c = nSaves + 1
    /\ calls[c].pc = "idle"
    /\ nSaves' = nSaves + 1
    /\ IF ~validateDataStructure(data)
       THEN /\ memoryCache' = RejectedMemory(data, inPlace)
            /\ calls' = [d \in CallIds |->
                           IF d = c THEN RejectedCall(data)
                           ELSE IF inPlace THEN AliasedCall(calls[d], TRUE, data)
                           ELSE calls[d]]
            /\ load' = IF inPlace THEN AliasedLoad(TRUE, data) ELSE load
            /\ bg' = IF inPlace THEN AliasedBg(TRUE, data) ELSE bg
            /\ caller' = [obj |-> data, shared |-> inPlace, accepted |-> FALSE,
                          success |-> Truthy(SaveDataPromise), before |-> memoryCache]
            /\ UNCHANGED hist
       ELSE LET stamped == Stamp(data, now)
                copy == JsonRoundTrip(stamped)
            IN /\ memoryCache' = copy
               /\ calls' = [d \in CallIds |->
                              IF d = c
                              THEN [calls[c] EXCEPT !.pc = "putP", !.arg = data,
                                                    !.stamped = copy, !.body = copy]
                              ELSE AliasedCall(calls[d], inPlace, stamped)]
               /\ load' = AliasedLoad(inPlace, stamped)
               /\ bg' = AliasedBg(inPlace, stamped)
               /\ hist' = [hist EXCEPT !.committed = JNull]
               /\ caller' = [obj |-> stamped, shared |-> CacheIsCallerObject(data),
                             accepted |-> TRUE, success |-> Truthy(SaveDataPromise),
                             before |-> memoryCache]
    /\ UNCHANGED <<admin, now, supabaseRow, blobStore, idbData, lsData, idbQueue>>

\* line 1700-1701: localStorage.setItem(JSON.stringify(this.memoryCache)); return true
SaveFinish(c) ==
    /\ lsData' = LsText(memoryCache)
    /\ calls' = [calls EXCEPT ![c] = DoneCall("true")]
    /\ hist' = [hist EXCEPT !.committed =
                   IF calls[c].stamped = memoryCache THEN memoryCache ELSE @]

\* saveData going on to the legacy tier whatever the primary PUT reported
SavePrimaryThenLegacy(c, out) ==
    /\ calls[c].pc = "putP"
    /\ supabaseRow' = IF out = "ok" /\ serverAccepts(calls[c].body)
                      THEN calls[c].body ELSE supabaseRow
    /\ calls' = [calls EXCEPT ![c] = [@ EXCEPT !.pc = "putL",
                                                !.body = JsonRoundTrip(memoryCache)]]
    /\ UNCHANGED <<caller, admin, now, memoryCache, blobStore, idbData, lsData,
                   load, bg, idbQueue, nSaves, hist>>

\* lines 1681-1689: the primary PUT ends; on failure the legacy PUT is sent
SavePrimary(c, out) ==
    /\ calls[c].pc = "putP"
    /\ IF out = "ok" /\ serverAccepts(calls[c].body)
       THEN /\ supabaseRow' = calls[c].body
            /\ SaveFinish(c)
       ELSE /\ calls' = [calls EXCEPT ![c] = [@ EXCEPT !.pc = "putL",
                                                       !.body = JsonRoundTrip(memoryCache)]]
            /\ UNCHANGED <<supabaseRow, lsData, hist>>
    /\ UNCHANGED <<caller, admin, now, memoryCache, blobStore, idbData, load, bg, idbQueue,
                   nSaves>>

\* lines 1689-1697: the legacy PUT ends; on failure dbSave is called
SaveLegacy(c, out) ==
    /\ calls[c].pc = "putL"
    /\ IF out = "ok" /\ serverAccepts(calls[c].body)
       THEN /\ blobStore' = calls[c].body
            /\ SaveFinish(c)
            /\ UNCHANGED idbQueue
       ELSE /\ calls' = [calls EXCEPT ![c] = [@ EXCEPT !.pc = "dbSave",
                                                       !.dbArg = memoryCache,
                                                       !.dbAlias = TRUE]]
            /\ idbQueue' = Append(idbQueue, OwnerCall(c))
            /\ UNCHANGED <<blobStore, lsData, hist>>
    /\ UNCHANGED <<caller, admin, now, memoryCache, supabaseRow, idbData, load, bg, nSaves>>

\* lines 1697-1707: dbSave ends; a rejection is caught at 1703 and returns false
SaveDbSave(c, ok) ==
    /\ calls[c].pc = "dbSave"
    /\ IdbTurn(OwnerCall(c))
    /\ idbQueue' = IdbPop
    /\ IF ok
       THEN /\ idbData' = calls[c].dbArg
            /\ SaveFinish(c)
       ELSE /\ calls' = [calls EXCEPT ![c] = DoneCall("false")]
            /\ UNCHANGED <<idbData, lsData, hist>>
    /\ UNCHANGED <<caller, admin, now, memoryCache, supabaseRow, blobStore, load, bg, nSaves>>

(***************************************************************************)
(* Callers of saveData.                                                    *)
(***************************************************************************)
\* handleFileImport, the modal's Import button: saveData(importedData)
Import(c, file) ==
    /\ Truthy(Get(file, "classes")) /\ TypeofObject(Get(file, "classes"))
    /\ SaveStart(c, file, FALSE)

\* student.stars = student.stars + amount, no floor
modifiedStarsUnclamped(stars, amount) == stars + amount

\* student.stars = Math.max(0, student.stars + amount)
modifiedStars(stars, amount) == IF stars + amount > 0 THEN stars + amount ELSE 0

\* modifyStars(studentId, amount): data = this.getData() is changed in place
ModifyStars(c, cn, sid, amount) ==
    /\ Truthy(memoryCache)
    /\ cn \in Keys(Get(memoryCache, "classes"))
    /\ sid \in Keys(Get(Get(Get(memoryCache, "classes"), cn), "students"))
    /\ LET classesObj == Get(memoryCache, "classes")
           classData == Get(classesObj, cn)
           students == Get(classData, "students")
           student == Get(students, sid)
           newStudent == Put(student, "stars",
                             JNum(modifiedStars(Get(student, "stars").n, amount)))
           data == Put(memoryCache, "classes",
                       Put(classesObj, cn,
                           Put(classData, "students", Put(students, sid, newStudent))))
       IN SaveStart(c, data, TRUE)

\* what a teacher types into a class-name field (trimmed)
ClassNameInputs == {"", "Math", "Art"}

\* createClass(): an empty or an existing name is refused with a toast;
\* otherwise the class is added to getData()'s object and saveData is called
CreateClass(c, className) ==
    /\ Truthy(memoryCache)
    /\ Get(memoryCache, "classes").k = "obj"
    /\ IF className = "" \/ Truthy(Get(Get(memoryCache, "classes"), className))
       THEN UNCHANGED vars
       ELSE LET newClass == JObj([students |-> EmptyObj, created |-> IsoTime(now)])
                data == Put(memoryCache, "classes",
                            Put(Get(memoryCache, "classes"), className, newClass))
            IN SaveStart(c, data, TRUE)

\* renameClass(), the modal's Rename button with currentClass selected:
\* data.classes[newName] = data.classes[currentClass]; delete the old key
RenameClass(c, currentClass, newName) ==
    /\ Truthy(memoryCache)
    /\ currentClass # ""
    /\ currentClass \in Keys(Get(memoryCache, "classes"))
    /\ IF newName = "" \/ newName = currentClass
       THEN UNCHANGED vars
       ELSE LET classesObj == Get(memoryCache, "classes")
                moved == JObj([n \in (Keys(classesObj) \ {currentClass}) \cup {newName} |->
                                 IF n = newName THEN classesObj.o[currentClass]
                                 ELSE classesObj.o[n]])
            IN SaveStart(c, Put(memoryCache, "classes", moved), TRUE)

\* D.classes = {} applied to an object
ClassesEmptied(obj) == Put(obj, "classes", EmptyObj)

\* Code outside saveData changes the object D it passed to saveData
\* (D.classes = {}), while the call is in flight or after it has resolved.
\* Whatever is the same object as D changes with it.
MutateCaller ==
    /\ caller.accepted
    /\ Get(caller.obj, "classes") # EmptyObj
    /\ caller' = [caller EXCEPT !.obj = ClassesEmptied(@)]
    /\ memoryCache' = IF caller.shared THEN ClassesEmptied(memoryCache) ELSE memoryCache
    /\ calls' = [c \in CallIds |->
                   IF caller.shared /\ calls[c].dbAlias
                   THEN [calls[c] EXCEPT !.dbArg = ClassesEmptied(@)]
                   ELSE calls[c]]
    /\ UNCHANGED <<admin, now, supabaseRow, blobStore, idbData, lsData, load,
                   bg, idbQueue, nSaves, hist>>

\* the page is loaded again: a new StarBoard, nothing in memory, requests of
\* the old page are abandoned
Quiescent ==
    /\ load.pc \in {"done", "threw"}
    /\ \A c \in CallIds : calls[c].pc \in {"idle", "done"}
    /\ ~bg.pending

Restart ==
    /\ Quiescent
    /\ memoryCache' = JNull
    /\ load' = FreshLoad(idbData)
    /\ calls' = [c \in CallIds |-> IdleCall]
    /\ bg' = NoBg
    /\ idbQueue' = <<>>
    /\ caller' = NoCaller
    /\ UNCHANGED <<admin, now, supabaseRow, blobStore, idbData, lsData, nSaves, hist>>

(***************************************************************************)
(* AdminDashboard (README.md): loadData, updateStudent, saveData.  The     *)
(* admin page shares the two remote tiers and localStorage with StarBoard. *)
(***************************************************************************)
\* AdminDashboard.createDefaultData at clock value t
adminCreateDefaultData(t) ==
    JObj([classes |-> EmptyObj,
          teachers |-> JObj([teacher |-> JStr("starboard")]),
          settings |-> JObj([theme |-> JStr("dark"),
                             soundEnabled |-> JBool(TRUE),
                             autoBackup |-> JBool(TRUE),
                             achievementThresholds |->
                                 JObj([bronze |-> JNum(10),
                                       silver |-> JNum(25),
                                       gold |-> JNum(50)])]),
          metadata |-> JObj([version |-> JStr("2.0"),
                             created |-> IsoTime(t),
                             lastModified |-> IsoTime(t),
                             backupCount |-> JNum(0)])])

\* AdminDashboard.tryLoadFromSupabase / tryLoadFromNetlify
adminTryLoad(out, body) ==
    IF out = "ok" /\ adminValidateDataStructure(JsonRoundTrip(body))
    THEN JsonRoundTrip(body)
    ELSE JNull

\* AdminDashboard.getDataFromLocalStorage
adminGetDataFromLocalStorage(ls, t) ==
    IF ls.k = "none" THEN adminCreateDefaultData(t)
    ELSE IF ls.k = "garbage" THEN adminCreateDefaultData(t)
    ELSE IF ~adminValidateDataStructure(ls.j) THEN adminCreateDefaultData(t)
    ELSE ls.j

\* the admin page is opened (or reloaded) by a logged-in administrator
AdminOpen ==
    /\ admin.pc \in {"closed", "ready"}
    /\ admin' = AdminFresh
    /\ UNCHANGED <<caller, now, memoryCache, supabaseRow, blobStore, idbData, lsData,
                   load, calls, bg, idbQueue, nSaves, hist>>

\* refreshData(), every 30 s: loadData() again, this.data is kept meanwhile
AdminRefresh ==
    /\ admin.pc = "ready"
    /\ admin' = [admin EXCEPT !.pc = "primaryGet"]
    /\ UNCHANGED <<caller, now, memoryCache, supabaseRow, blobStore, idbData, lsData,
                   load, calls, bg, idbQueue, nSaves, hist>>

\* loadData: await this.tryLoadFromSupabase()
AdminLoadPrimary(out) ==
    /\ admin.pc = "primaryGet"
    /\ supabaseRow' = IF out = "ok" THEN supabaseGetRow(supabaseRow, now) ELSE supabaseRow
    /\ LET supabaseData == adminTryLoad(out, supabaseGetBody(supabaseRow, now)) IN
         admin' = IF Truthy(supabaseData)
                  THEN [admin EXCEPT !.pc = "ready", !.data = supabaseData]
                  ELSE [admin EXCEPT !.pc = "legacyGet"]
    /\ UNCHANGED <<caller, now, memoryCache, blobStore, idbData, lsData, load, calls,
                   bg, idbQueue, nSaves, hist>>

\* loadData: await this.tryLoadFromNetlify(), else getDataFromLocalStorage()
AdminLoadLegacy(out) ==
    /\ admin.pc = "legacyGet"
    /\ LET netlifyData == adminTryLoad(out, blobGetBody(blobStore, now)) IN
         admin' = [admin EXCEPT !.pc = "ready",
                                !.data = IF Truthy(netlifyData) THEN netlifyData
                                         ELSE adminGetDataFromLocalStorage(lsData, now)]
    /\ UNCHANGED <<caller, now, memoryCache, supabaseRow, blobStore, idbData, lsData,
                   load, calls, bg, idbQueue, nSaves, hist>>

\* the values an administrator types into the Edit Student form
StudentIds == {"s1", "s2"}
NameInputs == {"Bo", ""}
StarsInputs == {"-1", "2", ""}

\* parseInt(text) || 0 of the stars field
adminParseStars(text) ==
    CASE text = "-1" -> -1
      [] text = "2" -> 2
      [] OTHER -> 0

\* updateStudent(oldStudentId, className) staying in the same class, up to
\* the first await of saveData(this.data): this.data is changed in place,
\* copied, and the primary PUT is sent.  newId is generateId().
AdminUpdateStudent(cn, oldId, newId, name, starsText) ==
    /\ admin.pc = "ready"
    /\ Truthy(admin.data)
    /\ cn \in Keys(Get(admin.data, "classes"))
    /\ oldId \in Keys(Get(Get(Get(admin.data, "classes"), cn), "students"))
    /\ newId \notin Keys(Get(Get(Get(admin.data, "classes"), cn), "students"))
    /\ IF name = ""
       THEN UNCHANGED admin
       ELSE LET classesObj == Get(admin.data, "classes")
                classData == Get(classesObj, cn)
                students == Get(classData, "students")
                kept == JObj([p \in Keys(students) \ {oldId} |-> students.o[p]])
                student == JObj([name |-> JStr(name),
                                 stars |-> JNum(adminParseStars(starsText)),
                                 created |-> IsoTime(now)])
                data == Put(admin.data, "classes",
                            Put(classesObj, cn,
                                Put(classData, "students", Put(kept, newId, student))))
            IN admin' = [admin EXCEPT !.pc = "putP", !.data = JsonRoundTrip(data),
                                      !.arg = data]
    /\ UNCHANGED <<caller, now, memoryCache, supabaseRow, blobStore, idbData, lsData,
                   load, calls, bg, idbQueue, nSaves, hist>>

\* saveData: "Always update localStorage", return true
AdminSaveFinish ==
    /\ lsData' = LsText(admin.arg)
    /\ admin' = [admin EXCEPT !.pc = "ready", !.arg = JNull]

\* saveData: the primary PUT ends; when it failed the legacy PUT is sent
AdminSavePrimary(out) ==
    /\ admin.pc = "putP"
    /\ IF out = "ok" /\ serverAccepts(JsonRoundTrip(admin.arg))
       THEN /\ supabaseRow' = JsonRoundTrip(admin.arg)
            /\ AdminSaveFinish
       ELSE /\ admin' = [admin EXCEPT !.pc = "putL"]
            /\ UNCHANGED <<supabaseRow, lsData>>
    /\ UNCHANGED <<caller, now, memoryCache, blobStore, idbData, load, calls, bg,
                   idbQueue, nSaves, hist>>

\* saveData: the legacy PUT ends
AdminSaveLegacy(out) ==
    /\ admin.pc = "putL"
    /\ blobStore' = IF out = "ok" /\ serverAccepts(JsonRoundTrip(admin.arg))
                    THEN JsonRoundTrip(admin.arg) ELSE blobStore
    /\ AdminSaveFinish
    /\ UNCHANGED <<caller, now, memoryCache, supabaseRow, idbData, load, calls, bg,
                   idbQueue, nSaves, hist>>

\* the 30 s timer fires while a saveData is awaiting a tier: refreshData()
\* calls loadData(), which runs up to the primary tier's fetch
AdminRefreshDuringSave ==
    /\ admin.pc \in {"putP", "putL"}
    /\ admin.refresh = "none"
    /\ admin' = [admin EXCEPT !.refresh = "primaryGet"]
    /\ UNCHANGED <<caller, now, memoryCache, supabaseRow, blobStore, idbData, lsData,
                   load, calls, bg, idbQueue, nSaves, hist>>

\* that loadData: await this.tryLoadFromSupabase()
AdminRefreshPrimary(out) ==
    /\ admin.refresh = "primaryGet"
    /\ supabaseRow' = IF out = "ok" THEN supabaseGetRow(supabaseRow, now) ELSE supabaseRow
    /\ LET supabaseData == adminTryLoad(out, supabaseGetBody(supabaseRow, now)) IN
         admin' = IF Truthy(supabaseData)
                  THEN [admin EXCEPT !.refresh = "none", !.data = supabaseData]
                  ELSE [admin EXCEPT !.refresh = "legacyGet"]
    /\ UNCHANGED <<caller, now, memoryCache, blobStore, idbData, lsData, load, calls,
                   bg, idbQueue, nSaves, hist>>

\* that loadData: await this.tryLoadFromNetlify(), else getDataFromLocalStorage()
AdminRefreshLegacy(out) ==
    /\ admin.refresh = "legacyGet"
    /\ LET netlifyData == adminTryLoad(out, blobGetBody(blobStore, now)) IN
         admin' = [admin EXCEPT !.refresh = "none",
                                !.data = IF Truthy(netlifyData) THEN netlifyData
                                         ELSE adminGetDataFromLocalStorage(lsData, now)]
    /\ UNCHANGED <<caller, now, memoryCache, supabaseRow, blobStore, idbData, lsData,
                   load, calls, bg, idbQueue, nSaves, hist>>

(***************************************************************************)
(* Specifications.                                                         *)
(***************************************************************************)
LoadStep ==
    \/ \E out \in LoadOutcomes : LoadPrimary(out)
    \/ \E ok \in BOOLEAN : LoadMirrorInit(ok)
    \/ \E ok \in BOOLEAN : LoadMirrorSave(ok)
    \/ \E out \in LoadOutcomes : LoadLegacy(out)
    \/ \E ok \in BOOLEAN : LoadDbInit(ok)
    \/ \E ok \in BOOLEAN : LoadDbLoad(ok)
    \/ \E ok \in BOOLEAN : LoadDbSaveDefault(ok)

SaveStep ==
    \/ \E c \in CallIds, out \in Outcomes : SavePrimary(c, out)
    \/ \E c \in CallIds, out \in Outcomes : SaveLegacy(c, out)
    \/ \E c \in CallIds, ok \in BOOLEAN : SaveDbSave(c, ok)

\* the startup load has settled and no saveData of this page is in flight
PageIdle ==
    /\ load.pc \in {"done", "threw"}
    /\ \A c \in CallIds : calls[c].pc \in {"idle", "done"}

\* the user imports a file, or clicks a star button, on an idle page
IdleImport(c, file) == PageIdle /\ Import(c, file)
IdleModifyStars(c, cn, sid, amount) == PageIdle /\ ModifyStars(c, cn, sid, amount)

UserStep ==
    \/ \E c \in CallIds, file \in ImportFiles : IdleImport(c, file)
    \/ \E c \in CallIds, amount \in {1, -5} : IdleModifyStars(c, "Math", "s1", amount)

\* The page from startup on; the user acts once the page is idle and may
\* reload it.
Next ==
    \/ LoadStep
    \/ GetData
    \/ \E ok \in BOOLEAN : BgDbSave(ok)
    \/ SaveStep
    \/ UserStep
    \/ Restart

Spec == Init /\ [][Next]_vars

\* The startup load alone, from every combination of tier contents, with
\* getData() called at any moment and the clock running.
NextLoad ==
    \/ Tick
    \/ LoadStep
    \/ GetData
    \/ \E ok \in BOOLEAN : BgDbSave(ok)

SpecLoad == InitAnyTiers /\ [][NextLoad]_vars

\* The page with code that goes on changing the object it handed to saveData.
NextMutate ==
    \/ LoadStep
    \/ SaveStep
    \/ UserStep
    \/ MutateCaller

SpecMutate == Init /\ [][NextMutate]_vars

\* Two startup loads in succession: the page is opened, and opened again once
\* the first load has settled, with nothing saved in between.  The tiers'
\* reachability (hist.env) is the same for both loads; the clock runs.
InitTwice ==
    /\ supabaseRow \in {JUndef, DocRemote, DocNegStars}
    /\ blobStore \in {JUndef, DocLegacy}
    /\ \E local \in {<<JUndef, LsNone>>, <<DocLocal, LsText(DocLocal)>>} :
          idbData = local[1] /\ lsData = local[2]
    /\ InitPageCore
    /\ admin = AdminClosed
    /\ \E p \in Outcomes, l \in Outcomes, i \in BOOLEAN :
          hist = [NoHist EXCEPT !.env = [primary |-> p, legacy |-> l, idb |-> i]]

\* the page is opened a second time, after the first load has settled
Reload ==
    /\ hist.run = 1
    /\ load.pc \in {"done", "threw"}
    /\ hist' = [hist EXCEPT !.run = 2, !.first = memoryCache]
    /\ memoryCache' = JNull
    /\ load' = FreshLoad(idbData)
    /\ calls' = [c \in CallIds |-> IdleCall]
    /\ bg' = NoBg
    /\ idbQueue' = <<>>
    /\ caller' = NoCaller
    /\ UNCHANGED <<admin, now, supabaseRow, blobStore, idbData, lsData, nSaves>>

NextTwice ==
    \/ Tick
    \/ LoadPrimary(hist.env.primary)
    \/ LoadMirrorInit(hist.env.idb)
    \/ LoadMirrorSave(hist.env.idb)
    \/ LoadLegacy(hist.env.legacy)
    \/ LoadDbInit(hist.env.idb)
    \/ LoadDbLoad(hist.env.idb)
    \/ LoadDbSaveDefault(hist.env.idb)
    \/ Reload

SpecTwice == InitTwice /\ [][NextTwice]_vars

\* The page with a teacher who creates and renames classes.
IdleCreateClass(c, className) == PageIdle /\ CreateClass(c, className)
IdleRenameClass(c, currentClass, newName) ==
    PageIdle /\ RenameClass(c, currentClass, newName)

NextClasses ==
    \/ LoadStep
    \/ SaveStep
    \/ \E c \in CallIds, className \in ClassNameInputs : IdleCreateClass(c, className)
    \/ \E c \in CallIds, currentClass \in ClassNameInputs, newName \in ClassNameInputs :
          IdleRenameClass(c, currentClass, newName)

SpecClasses == Init /\ [][NextClasses]_vars

\* The page with a user who does not wait: once the startup load has settled
\* a file is imported or a star button is clicked whether or not an earlier
\* saveData is still awaiting a tier (nothing in the page disables the
\* controls meanwhile).
LoadedImport(c, file) == load.pc \in {"done", "threw"} /\ Import(c, file)
LoadedModifyStars(c, cn, sid, amount) ==
    load.pc \in {"done", "threw"} /\ ModifyStars(c, cn, sid, amount)

NextOverlap ==
    \/ LoadStep
    \/ SaveStep
    \/ \E c \in CallIds, file \in ImportFiles : LoadedImport(c, file)
    \/ \E c \in CallIds, amount \in {1, -5} : LoadedModifyStars(c, "Math", "s1", amount)

SpecOverlap == Init /\ [][NextOverlap]_vars

\* The same user with the primary tier reachable and accepting every request:
\* each GET and each PUT sent to it ends with status 200, in whatever order
\* the function handles the PUTs of overlapping calls.
NextOnline ==
    \/ LoadPrimary("ok")
    \/ \E ok \in BOOLEAN : LoadMirrorInit(ok)
    \/ \E ok \in BOOLEAN : LoadMirrorSave(ok)
    \/ \E out \in LoadOutcomes : LoadLegacy(out)
    \/ \E ok \in BOOLEAN : LoadDbInit(ok)
    \/ \E ok \in BOOLEAN : LoadDbLoad(ok)
    \/ \E ok \in BOOLEAN : LoadDbSaveDefault(ok)
    \/ \E c \in CallIds : SavePrimary(c, "ok")
    \/ \E c \in CallIds, file \in ImportFiles : LoadedImport(c, file)
    \/ \E c \in CallIds, amount \in {1, -5} : LoadedModifyStars(c, "Math", "s1", amount)

SpecOnline == Init /\ [][NextOnline]_vars

\* The startup load of a first visit (nothing stored on the device) against
\* a primary tier that holds any of the candidate rows.
InitCandidates ==
    /\ supabaseRow \in CandidateRows
    /\ blobStore \in {JUndef, DocLegacy}
    /\ idbData = JUndef
    /\ lsData = LsNone
    /\ InitPage
    /\ admin = AdminClosed

SpecCandidates == InitCandidates /\ [][LoadStep]_vars

\* The page is opened, with or without a class in its URL, on a device whose
\* IndexedDB and localStorage need not agree: localStorage is refreshed by
\* every save and IndexedDB only by a save both remote tiers refused,
\* localStorage is also written by the admin page, and it can be cleared on
\* its own.
InitStartup ==
    /\ supabaseRow \in {JUndef, DocRemote}
    /\ blobStore \in {JUndef, DocLegacy}
    /\ \E local \in {<<JUndef, LsNone>>,
                      <<DocLocal, LsText(DocLocal)>>,
                      <<DocLocal, LsText(DocRemote)>>,
                      <<DocLocal, LsText(DocNegStars)>>,
                      <<DocLocal, LsNone>>} :
          idbData = local[1] /\ lsData = local[2]
    /\ InitPage
    /\ admin = AdminClosed

NextStartup ==
    \/ \E classParam \in ClassParams : LoadFromURL(classParam)
    \/ LoadStep
    \/ \E ok \in BOOLEAN : BgDbSave(ok)

SpecStartup == InitStartup /\ [][NextStartup]_vars

\* The admin page alone, on tiers that hold nothing or valid documents only.
InitAdmin ==
    /\ \E t \in {<<JUndef, JUndef, JUndef, LsNone>>,
                 <<DocRemote, DocLegacy, DocLocal, LsText(DocLocal)>>} :
          supabaseRow = t[1] /\ blobStore = t[2] /\ idbData = t[3] /\ lsData = t[4]
    /\ InitPage
    /\ admin = AdminClosed

NextAdmin ==
    \/ AdminOpen
    \/ AdminRefresh
    \/ \E out \in Outcomes : AdminLoadPrimary(out)
    \/ \E out \in Outcomes : AdminLoadLegacy(out)
    \/ \E cn \in {"Math"}, oldId \in StudentIds, newId \in StudentIds,
          name \in NameInputs, starsText \in StarsInputs :
            AdminUpdateStudent(cn, oldId, newId, name, starsText)
    \/ \E out \in Outcomes : AdminSavePrimary(out)
    \/ \E out \in Outcomes : AdminSaveLegacy(out)

SpecAdmin == InitAdmin /\ [][NextAdmin]_vars

\* The admin page with its refresh timer firing while a save is in flight;
\* the administrator sets a student's name to Bo and the stars to 2.
NextAdminRefresh ==
    \/ AdminOpen
    \/ \E out \in Outcomes : AdminLoadPrimary(out)
    \/ \E out \in Outcomes : AdminLoadLegacy(out)
    \/ \E oldId \in StudentIds, newId \in StudentIds :
            AdminUpdateStudent("Math", oldId, newId, "Bo", "2")
    \/ \E out \in Outcomes : AdminSavePrimary(out)
    \/ \E out \in Outcomes : AdminSaveLegacy(out)
    \/ AdminRefreshDuringSave
    \/ \E out \in Outcomes : AdminRefreshPrimary(out)
    \/ \E out \in Outcomes : AdminRefreshLegacy(out)

SpecAdminRefresh == InitAdmin /\ [][NextAdminRefresh]_vars

(***************************************************************************)
(* Properties.                                                             *)
(***************************************************************************)
InFlight(c) == calls[c].pc \in {"putP", "putL", "dbSave"}
\* call c is invoked in this step
Invoked(c) == calls[c].pc = "idle" /\ calls'[c].pc # "idle"
\* call c's promise resolves in this step, after at least one await
Completes(c) == InFlight(c) /\ calls'[c].pc = "done"

\* C1: a document that fails validateDataStructure makes saveData resolve to
\* false in the step that invokes it; no stamped copy is made, no request is
\* issued, and memoryCache, both remote tiers, IndexedDB and localStorage
\* are left as they were.
C1_InvalidSaveRejected ==
    [][\A c \in CallIds :
          Invoked(c) /\ ~validateDataStructure(calls'[c].arg) =>
              /\ calls'[c].pc = "done"
              /\ calls'[c].result = "false"
              /\ calls'[c].stamped = JNull
              /\ UNCHANGED <<memoryCache, supabaseRow, blobStore, idbData,
                             lsData, idbQueue>>]_vars

\* a refused save, with a document in memory that it left alone
C1_Witness ==
    \E c \in CallIds :
        /\ calls[c].pc = "done"
        /\ calls[c].result = "false"
        /\ calls[c].arg \in {DocNoTeachers, DocNegStars, DocNullClass}
        /\ Truthy(memoryCache)

\* the metadata fields saveData does not stamp
UnstampedMetadata(doc) ==
    LET m == Get(doc, "metadata") IN
      [p \in Keys(m) \ {"lastModified", "version", "backupCount"} |-> m.o[p]]

\* C2: right after saveData(D) on a valid D, getData() equals D in classes,
\* teachers, settings and every unstamped metadata field (created
\* included), and its backupCount is D's prior backupCount + 1.
C2_SaveThenGetRoundTrip ==
    [][\A c \in CallIds :
          Invoked(c) /\ validateDataStructure(calls'[c].arg) =>
              LET D == calls'[c].arg
                  R == IF Truthy(memoryCache') THEN memoryCache'
                       ELSE getDataFromLocalStorage(lsData', now')
              IN /\ \A p \in {"classes", "teachers", "settings"} : Get(R, p) = Get(D, p)
                 /\ UnstampedMetadata(R) = UnstampedMetadata(D)
                 /\ Get(Get(R, "metadata"), "backupCount") = PlusOne(PriorBackupCount(D))]_vars

C4_OnlyValidPersisted ==
    [][/\ supabaseRow' # supabaseRow => validateDataStructure(supabaseRow')
       /\ blobStore' # blobStore => validateDataStructure(blobStore')
       /\ idbData' # idbData => validateDataStructure(idbData')
       /\ lsData' # lsData =>
              lsData'.k = "text" /\ validateDataStructure(lsData'.j)]_vars

\* C5: when the primary tier returned a valid document, the load ends with
\* that document in memory and without having queried the legacy tier.
C5_PrimaryPrecedence ==
    (load.pc \in {"done", "threw"} /\ load.primary = "valid") =>
        /\ memoryCache = load.primaryDoc
        /\ load.legacy = "none"

\* C6: initializeDataStorage never rejects, and when it has settled an
\* in-memory copy is present.
C6_LoadNeverThrows ==
    /\ load.pc # "threw"
    /\ load.pc = "done" => Truthy(memoryCache)

\* a document of the default shape
DefaultShape(doc) ==
    /\ Get(doc, "classes") = EmptyObj
    /\ Get(doc, "teachers") = JObj([teacher |-> JStr("starboard")])
    /\ HasOwn(doc, "settings")

\* C7: when both remote tiers failed and IndexedDB was empty, the settled
\* load leaves getData() returning a document of the default shape, and
\* that document is what IndexedDB holds.
C7_FallbackTotality ==
    ( /\ load.pc \in {"done", "threw"}
      /\ load.primary = "fail"
      /\ load.legacy = "fail"
      /\ load.idbEmptyAtStart )
    => /\ DefaultShape(getDataResult)
       /\ idbData = getDataResult

\* C8: a saveData call on a valid document resolves to true, whichever of
\* the primary write, the legacy write and the IndexedDB write fail.
C8_ValidSaveResolvesTrue ==
    [][\A c \in CallIds : Completes(c) => calls'[c].result = "true"]_vars

\* C9: when a saveData call on a valid document completes, localStorage
\* holds that call's stamped document and equals the in-memory copy.
C9_FastCacheRefreshed ==
    [][\A c \in CallIds :
          Completes(c) =>
              /\ lsData' = LsText(calls[c].stamped)
              /\ lsData' = LsText(memoryCache')]_vars

\* C10: after a save that completed with true, a reload with both remote
\* tiers unreachable ends with getData() returning the stamped document of
\* that save.
C10_OfflineReloadShowsLatest ==
    ( /\ hist.committed # JNull
      /\ \A c \in CallIds : calls[c].pc = "idle"
      /\ load.pc = "done"
      /\ load.primary = "fail"
      /\ load.legacy = "fail" )
    => getDataResult = hist.committed

\* C11: a getData() call leaves both remote tiers, IndexedDB and
\* localStorage as they are; with an in-memory copy present it changes
\* nothing at all; without one it adopts the localStorage document when that
\* parses and validates, a default document otherwise, and queues exactly
\* one IndexedDB write of the adopted document.
C11_GetDataFrame ==
    [][GetData =>
          /\ UNCHANGED <<supabaseRow, blobStore, idbData, lsData, calls>>
          /\ Truthy(memoryCache) => UNCHANGED vars
          /\ ~Truthy(memoryCache) =>
                /\ memoryCache' = IF lsData.k = "text" /\ validateDataStructure(lsData.j)
                                  THEN lsData.j
                                  ELSE createDefaultData(now)
                /\ idbQueue' = Append(idbQueue, OwnerBg)
                /\ bg'.pending /\ bg'.doc = memoryCache']_vars

\* getData() has adopted the localStorage document while the startup load
\* is still running, and its IndexedDB write is pending
C11_Witness ==
    /\ bg.pending
    /\ lsData.k = "text"
    /\ memoryCache = lsData.j
    /\ load.pc = "primaryGet"

\* C12: once saveData has accepted D, a change made to D by the caller
\* leaves the in-memory copy and every pending write as they are, and the
\* call, when it resolves true, has written its own stamped document (and
\* nothing else) to the legacy tier, to IndexedDB and to localStorage.
C12_CallerMutationHarmless ==
    [][/\ (caller.accepted /\ caller'.obj # caller.obj /\ nSaves' = nSaves) =>
             UNCHANGED <<memoryCache, calls, supabaseRow, blobStore, idbData, lsData>>
       /\ \A c \in CallIds :
             (Completes(c) /\ calls'[c].result = "true") =>
                 /\ memoryCache' = calls[c].stamped
                 /\ lsData' = LsText(calls[c].stamped)
                 /\ blobStore' # blobStore => blobStore' = calls[c].stamped
                 /\ idbData' # idbData => idbData' = calls[c].stamped]_vars

\* the caller emptied D.classes after an import; the save went on to the
\* legacy tier and localStorage with the classes it was given
C12_Witness ==
    /\ caller.accepted
    /\ Get(caller.obj, "classes") = EmptyObj
    /\ Get(memoryCache, "classes") # EmptyObj
    /\ blobStore = memoryCache
    /\ lsData = LsText(memoryCache)

\* metadata.backupCount of a document
BackupCountOf(doc) == Get(Get(doc, "metadata"), "backupCount")

\* C13: every saveData call that accepts its document raises
\* metadata.backupCount of the in-memory copy by exactly one.
C13_BackupCountIncrements ==
    [][\A c \in CallIds :
          ( /\ Invoked(c)
            /\ validateDataStructure(calls'[c].arg)
            /\ BackupCountOf(memoryCache).k = "num" ) =>
              BackupCountOf(memoryCache') = JNum(BackupCountOf(memoryCache).n + 1)]_vars

\* the stars of student s1 of class Math (JUndef when there is none)
StarsOfS1(doc) ==
    Get(Get(Get(Get(Get(doc, "classes"), "Math"), "students"), "s1"), "stars")

\* the stars values of all students of a document
AllStars(doc) ==
    {Get(Get(Get(Get(doc, "classes"), cn), "students").o[sid], "stars") :
        <<cn, sid>> \in {p \in Keys(Get(doc, "classes")) \X {"s1", "s2"} :
                            p[2] \in Keys(Get(Get(Get(doc, "classes"), p[1]), "students"))}}

\* C14: a star button (a saveData call that changes a student's stars) sets
\* the stars s to s + a, or to 0 when that would be negative, and no student
\* of the in-memory copy ever has negative stars.
C14_StarFloor ==
    /\ [](Truthy(memoryCache) =>
             \A v \in AllStars(memoryCache) : v.k = "num" /\ v.n >= 0)
    /\ [][((\E c \in CallIds : Invoked(c))
            /\ StarsOfS1(memoryCache).k = "num" /\ StarsOfS1(memoryCache').k = "num"
            /\ StarsOfS1(memoryCache') # StarsOfS1(memoryCache)) =>
              \E a \in {1, -5} :
                 StarsOfS1(memoryCache').n =
                     IF StarsOfS1(memoryCache).n + a < 0 THEN 0
                     ELSE StarsOfS1(memoryCache).n + a]_vars

\* a decrement of 5 on a student with fewer than 5 stars was saved as 0
C14_Witness ==
    /\ caller.accepted
    /\ StarsOfS1(caller.obj) = JNum(0)
    /\ StarsOfS1(memoryCache) = JNum(0)

\* C15: the second of two successive startup loads, met by the same tier
\* reachability and with no save in between, leaves in memory the document
\* the first one left.
C15_LoadIdempotent ==
    (hist.run = 2 /\ load.pc \in {"done", "threw"}) => memoryCache = hist.first

\* The validator as the specification words it: an object whose classes,
\* teachers and settings are objects, every class with a students object,
\* every student with a non-empty string name and numeric stars >= 0, every
\* teachers entry a string.
SpecifiedValid(candidate) ==
    /\ candidate.k = "obj"
    /\ \A prop \in {"classes", "teachers", "settings"} : Get(candidate, prop).k = "obj"
    /\ \A cn \in Keys(Get(candidate, "classes")) :
          LET students == Get(Get(Get(candidate, "classes"), cn), "students") IN
            /\ students.k = "obj"
            /\ \A sid \in Keys(students) :
                  LET name == Get(Get(students, sid), "name")
                      stars == Get(Get(students, sid), "stars")
                  IN /\ name.k = "str" /\ name.s # ""
                     /\ stars.k = "num" /\ stars.n >= 0
    /\ \A u \in Keys(Get(candidate, "teachers")) :
          Get(Get(candidate, "teachers"), u).k = "str"

\* C16: validateDataStructure accepts the primary tier's row (the load
\* adopts it) exactly when the row is valid as specified.
C16_ValidatorAsSpecified ==
    /\ load.primary = "valid" => SpecifiedValid(supabaseRow)
    /\ load.primary = "invalid" => ~SpecifiedValid(supabaseRow)

\* C17: a remote load hands the orchestrator a document only when the
\* request ended OK with a body that passes validateDataStructure, and then
\* it is that body; in every other case it hands over nothing, the
\* orchestrator moves on to the next tier, and nothing is thrown.
C17_RemoteLoadContained ==
    [][/\ load.pc = "primaryGet" /\ load'.pc # "primaryGet" =>
             LET body == JsonRoundTrip(supabaseGetBody(supabaseRow, now)) IN
               IF load'.primary = "valid"
               THEN /\ validateDataStructure(body)
                    /\ memoryCache' = body
                    /\ load'.pc = "p_dbInit"
               ELSE /\ load'.pc = "legacyGet"
                    /\ UNCHANGED memoryCache
                    /\ load'.primary = "invalid" => ~validateDataStructure(body)
       /\ load.pc = "legacyGet" /\ load'.pc # "legacyGet" =>
             LET body == JsonRoundTrip(blobGetBody(blobStore, now)) IN
               IF load'.legacy = "valid"
               THEN /\ validateDataStructure(body)
                    /\ memoryCache' = body
                    /\ load'.pc = "l_dbInit"
               ELSE /\ load'.pc = "dbInit"
                    /\ UNCHANGED memoryCache
                    /\ load'.legacy = "invalid" => ~validateDataStructure(body)]_vars

\* the primary tier answered 200 with a row that fails validation; nothing
\* was adopted and the legacy tier is being asked
C17_Witness ==
    /\ load.primary = "invalid"
    /\ load.pc = "legacyGet"
    /\ memoryCache = JNull
    /\ ~validateDataStructure(supabaseRow)

\* C18: a saveData call made by createClass or renameClass never leaves the
\* in-memory copy with fewer classes, and every class name present before
\* and after maps to the same class record.
C18_DuplicateClassRejected ==
    [][((\E c \in CallIds : Invoked(c)) /\ Truthy(memoryCache)) =>
          LET old == Get(memoryCache, "classes")
              new == Get(memoryCache', "classes")
          IN /\ Cardinality(Keys(new)) >= Cardinality(Keys(old))
             /\ \A n \in Keys(old) \cap Keys(new) : new.o[n] = old.o[n]]_vars

\* C19: the operation that called saveData takes its success path only when
\* saveData accepted the document.
C19_RejectionReachesCaller ==
    caller.success => caller.accepted

\* C20: a saveData call on a valid document asks the primary tier first; it
\* goes on to the legacy tier only when the primary tier is left unwritten,
\* and to IndexedDB only when the legacy tier is left unwritten too; a call
\* that ends at the primary tier writes neither the legacy tier nor
\* IndexedDB.
C20_WriteTierOrder ==
    [][\A c \in CallIds :
          /\ (calls[c].pc = "idle" /\ InFlight(c)') => calls'[c].pc = "putP"
          /\ (calls[c].pc = "putP" /\ calls'[c].pc # "putP") =>
                IF calls'[c].pc = "done"
                THEN /\ calls'[c].result = "true"
                     /\ supabaseRow' = calls[c].body
                     /\ UNCHANGED <<blobStore, idbData, idbQueue>>
                ELSE /\ calls'[c].pc = "putL"
                     /\ UNCHANGED <<supabaseRow, blobStore, idbData, idbQueue>>
          /\ (calls[c].pc = "putL" /\ calls'[c].pc # "putL") =>
                IF calls'[c].pc = "done"
                THEN /\ calls'[c].result = "true"
                     /\ blobStore' = calls[c].body
                     /\ UNCHANGED <<supabaseRow, idbData, idbQueue>>
                ELSE /\ calls'[c].pc = "dbSave"
                     /\ UNCHANGED <<supabaseRow, blobStore, idbData>>
          /\ (calls[c].pc = "dbSave" /\ calls'[c].pc # "dbSave") =>
                UNCHANGED <<supabaseRow, blobStore>>]_vars

\* a save ended at the primary tier: the row is its stamped document, which
\* neither the legacy tier nor IndexedDB holds
C20_Witness ==
    /\ hist.committed # JNull
    /\ supabaseRow = hist.committed
    /\ blobStore # hist.committed
    /\ idbData # hist.committed
    /\ \E c \in CallIds : calls[c].pc = "done" /\ calls[c].result = "true"

\* C21: when the startup load has adopted a document from the primary or the
\* legacy tier and has finished, memory, IndexedDB and localStorage all hold
\* that document, and no tier after the adopting one was queried.
C21_AdoptMirrorStop ==
    /\ (load.pc \in {"done", "threw"} /\ load.primary = "valid") =>
           /\ memoryCache = load.primaryDoc
           /\ idbData = load.primaryDoc
           /\ lsData = LsText(load.primaryDoc)
           /\ load.legacy = "none"
    /\ (load.pc \in {"done", "threw"} /\ load.legacy = "valid") =>
           /\ Truthy(memoryCache)
           /\ idbData = memoryCache
           /\ lsData = LsText(memoryCache)

\* a valid document that is not a freshly constructed default
RealDocument(doc) == validateDataStructure(doc) /\ ~DefaultShape(doc)

\* some tier holds a valid non-default document
SomeTierHoldsReal ==
    \/ RealDocument(supabaseRow)
    \/ RealDocument(blobStore)
    \/ RealDocument(idbData)
    \/ lsData.k = "text" /\ RealDocument(lsData.j)

\* C22: while some tier holds a valid non-default document, no step puts a
\* default document into memory, into IndexedDB or into localStorage.
C22_DefaultOnlyWhenNothingStored ==
    [][SomeTierHoldsReal =>
          /\ memoryCache' # memoryCache => ~DefaultShape(memoryCache')
          /\ idbData' # idbData => ~DefaultShape(idbData')
          /\ lsData' # lsData => ~(lsData'.k = "text" /\ DefaultShape(lsData'.j))]_vars

\* C23: getData() is not called (the in-memory copy is not filled from the
\* fast cache) before the startup load has settled, and once the in-memory
\* copy is present the startup does not assign it again.
C23_LoadBeforeFirstRead ==
    [][/\ (~Truthy(memoryCache) /\ bg'.pending /\ ~bg.pending) =>
             load.pc \in {"done", "threw"}
       /\ Truthy(memoryCache) => memoryCache' = memoryCache]_vars

\* the stamped documents of the calls that are awaiting a tier and of the
\* call invoked last
StampedByCalls ==
    {calls[c].stamped : c \in {d \in CallIds : InFlight(d)}}
        \cup {JsonRoundTrip(caller.obj)}

\* C24: when a saveData call completes that a later call on a valid
\* document has overlapped, and no call is left in flight, the in-memory copy
\* and localStorage hold the stamped document of the last call; and every
\* write a call makes to a remote tier or to IndexedDB stores, whole, the
\* stamped document of one of the calls.
C24_OverlapLastWriteWins ==
    [][/\ ( /\ \E c, d \in CallIds : c < d /\ Completes(c) /\ calls[d].pc = "done"
            /\ \A c \in CallIds : ~InFlight(c)'
            /\ caller.accepted ) =>
              /\ memoryCache' = JsonRoundTrip(caller.obj)
              /\ lsData' = LsText(JsonRoundTrip(caller.obj))
       /\ (\E c \in CallIds : InFlight(c) /\ calls'[c].pc # calls[c].pc) =>
              /\ supabaseRow' # supabaseRow => supabaseRow' \in StampedByCalls
              /\ blobStore' # blobStore => blobStore' \in StampedByCalls
              /\ idbData' # idbData => idbData' \in StampedByCalls]_vars

\* C25: with the primary tier reachable and accepting throughout, once the
\* startup load has settled and no saveData call is in flight, a save having
\* completed, the primary tier's row equals the in-memory copy.
C25_PrimaryEventuallyConsistent ==
    ( /\ load.pc \in {"done", "threw"}
      /\ \A c \in CallIds : ~InFlight(c)
      /\ \E c \in CallIds : calls[c].pc = "done" /\ calls[c].result = "true" )
    => supabaseRow = memoryCache

\* C26: whatever a saveData call writes to the primary tier, the legacy
\* tier, IndexedDB or localStorage is the stamped copy that same call made,
\* also when another call has replaced the in-memory copy meanwhile.
C26_WritesCarryOwnDocument ==
    [][\A c \in CallIds :
          (InFlight(c) /\ calls'[c].pc # calls[c].pc) =>
              /\ supabaseRow' # supabaseRow => supabaseRow' = calls[c].stamped
              /\ blobStore' # blobStore => blobStore' = calls[c].stamped
              /\ idbData' # idbData => idbData' = calls[c].stamped
              /\ lsData' # lsData => lsData' = LsText(calls[c].stamped)]_vars

\* C27: the in-memory copy changes only in a step of the startup load, in
\* getData's fallback, or in the invocation of a saveData call that accepts
\* its document; and when an operation's saveData resolves false, getData()
\* returns what it returned before the operation began.
C27_MemoryChangesOnlyByAcceptedSave ==
    [][/\ memoryCache' # memoryCache =>
             \/ load' # load
             \/ bg'.pending /\ ~bg.pending
             \/ \E c \in CallIds : Invoked(c) /\ calls'[c].pc = "putP"
       /\ \A c \in CallIds :
             (calls[c].pc # "done" /\ calls'[c].pc = "done" /\ calls'[c].result = "false") =>
                 memoryCache' = caller'.before]_vars

\* C28: when the last save resolved true by writing the primary tier (the
\* legacy tier keeps an older document), and the page is then opened again
\* with the primary tier unreachable and the legacy tier answering, the
\* settled load has not gone back to the older document: getData() returns
\* that save's stamped document and localStorage still holds it.
C28_NoRollbackThroughLegacy ==
    ( /\ hist.committed # JNull
      /\ supabaseRow = hist.committed
      /\ Truthy(blobStore)
      /\ blobStore # hist.committed
      /\ \A c \in CallIds : calls[c].pc = "idle"
      /\ load.pc \in {"done", "threw"}
      /\ load.primary = "fail"
      /\ load.legacy = "valid" )
    => /\ getDataResult = hist.committed
       /\ lsData = LsText(hist.committed)

\* C29: when both remote tiers failed and the load completed its IndexedDB
\* step, the in-memory copy is the document IndexedDB held when the page
\* opened (DocLocal wherever it held one) and IndexedDB still holds it,
\* whether or not getData() was called while the load was pending.
C29_EarlyGetDataKeepsStore ==
    ( /\ load.pc = "done"
      /\ load.primary = "fail"
      /\ load.legacy = "fail"
      /\ ~load.idbEmptyAtStart )
    => /\ memoryCache = DocLocal
       /\ idbData = DocLocal

\* C30: when a refresh started during a save gets its document from the
\* primary tier, the admin page's this.data is the same afterwards: the
\* refresh does not put back the document from before the save.
C30_RefreshKeepsSavedChange ==
    [][(admin.refresh = "primaryGet" /\ admin'.refresh = "none") =>
          admin'.data = admin.data]_vars

====
